---- MODULE Spec2Model ----
(***************************************************************************)
(* Model of MCPClientImpl (mcp_client.ts): the child process, the          *)
(* WebSocket(s) it opens towards the announced endpoint, the read queue    *)
(* with its single resolver slot, and the list_tools / call_tool RPC       *)
(* exchanges.  JavaScript run-to-completion is kept: a handler is one      *)
(* action, promise continuations are entries of the microtask queue, and   *)
(* I/O events and timers only run when the microtask queue is empty.       *)
(*                                                                         *)
(* Two further state machines share the module, each with its own          *)
(* specification: the tool provider gemini_mcp_server.ts (ServerSpec) and   *)
(* the agent gemini_mcp_agent.ts (AgentSpec), which sees the client through *)
(* the outcomes of connect(), list_tools() and the invokers.               *)
(***************************************************************************)
EXTENDS Integers, Sequences, FiniteSets, TLC

\* ---------------------------------------------------------------- bounds
MaxSockets == 2      \* endpoint matches seen on the child's stdout
MaxCalls == 2        \* list_tools() / invoker calls made by the caller
MaxMsgs == 2         \* messages the peer sends over the session

\* ------------------------------------------------------ program constants
CONNECTING == 0
OPEN == 1
CLOSING == 2
CLOSED == 3
CONNECT_TIMEOUT == 10

\* A Buffer is a sequence of JSON documents: the peer sends buffers holding
\* one document, Buffer.concat of several buffers holds several.
\* A document is a response with a result, with an error carrying a message,
\* or with neither field.
\* Every document carries an id; a request draws its own id at random.
RequestIds == {1}
ResponseIds == {1, 2}
Payloads == {[kind |-> "result", val |-> 1, id |-> 1],
             [kind |-> "error", val |-> 2, id |-> 1],
             [kind |-> "neither", val |-> 0, id |-> 1]}
\* Responses with a result whose id is or is not the id of the request.
IdPayloads == {[kind |-> "result", val |-> 1, id |-> i] : i \in ResponseIds}
ToolNames == {"echo"}
\* Arguments a caller passes to an invoker.
Args == {"hi"}
Calls == 1..MaxCalls

VARIABLES
  process,         \* this.process: "null" or "child"
  procState,       \* the child itself: "none", "running", "exited", "errored"
  kills,           \* termination signals sent with process.kill()
  connectState,    \* promise of connect(): "idle", "pending", "resolved", "rejected"
  connectError,    \* reason of the rejection
  sockets,         \* every WebSocket created, in creation order
  socket,          \* this.socket: 0 (null) or an index into sockets
  messageQueue,    \* this.messageQueue
  currentResolver, \* this.currentResolver: 0 (null) or the call whose read() waits
  rpcInterface,    \* this.rpcInterface is set
  invokers,        \* tool names for which call_tool() returned an invoker
  calls,           \* the RPC calls, by call id
  microtasks,      \* promise continuations waiting to run, oldest first
  sent,            \* requests handed to an open socket, in order
  arrived,         \* buffers delivered by 'message' events, in order
  readLog,         \* buffers returned by read(), in order of resolution
  everOpened,      \* some socket has emitted 'open'
  alternating      \* no call was started while another had not returned

\* gemini_mcp_server.ts
VARIABLES
  spc,               \* position of the server script
  stdoutWrite,       \* process.stdout.write: "original" or "redirect"
  consoleRedirected, \* the console methods have been replaced
  stdoutLog,         \* chunks written to the real stdout, in order
  stderrLog,         \* chunks written to stderr, in order
  serverExit,        \* exit code of the server, "none" while it runs
  requests,          \* generate_text requests taken so far
  gen                \* the generate_text call being handled

serverVars == <<spc, stdoutWrite, consoleRedirected, stdoutLog, stderrLog,
                serverExit, requests, gen>>

\* State of the agent (gemini_mcp_agent.ts): main(), MCPAgent and what it can
\* observe of its MCPClientImpl.
VARIABLES
  apc,           \* where main() stands
  child,         \* the spawned provider: "none", "running", "exited"
  link,          \* the client's socket: "none", "socket", "open", "closed"
  tools,         \* this.tools: tool name -> MCPTool
  discoveries,   \* number of times setupTools built this.tools
  listResult,    \* what list_tools() returned to setupTools
  messages,      \* main's conversation history
  contents,      \* processUserInput's working copy of the conversation
  firstParts,    \* parts of the first model response of the turn
  idx,           \* index of the part whose functionCall is being served
  invoked,       \* invoker calls made in this turn
  followUps,     \* follow-up model requests made in this turn
  toolWritten,   \* the pending invoker wrote its request to the transport
  toolRequests,  \* requests the invokers wrote to the transport
  caught,        \* what the per-turn catch of main caught in this turn
  initError,     \* what main().catch caught
  agentExit,     \* exit code of the agent process, -1 while it runs
  loopEntered,   \* the interactive loop was entered
  turns,         \* user turns started
  modelRequest   \* the generateContent request that is pending

agentVars == <<apc, child, link, tools, discoveries, listResult, messages,
               contents, firstParts, idx, invoked, followUps, toolWritten,
               toolRequests, caught, initError, agentExit, loopEntered, turns,
               modelRequest>>

clientVars == <<process, procState, kills, connectState, connectError, sockets,
          socket, messageQueue, currentResolver, rpcInterface, invokers,
          calls, microtasks, sent, arrived, readLog, everOpened, alternating>>

vars == <<clientVars, serverVars, agentVars>>

procVars == <<process, procState, kills>>
connVars == <<connectState, connectError>>
sockVars == <<sockets, socket, rpcInterface, everOpened>>
chanVars == <<messageQueue, currentResolver, arrived, readLog>>
callVars == <<invokers, calls, microtasks, sent, alternating>>

IdleCall == [pc |-> "idle", method |-> "none", args |-> "none", err |-> "none",
             buf |-> <<>>, ret |-> "none", id |-> 0]

\* The value of err while nothing was caught.
NotThrown == [isErrorObject |-> FALSE, printable |-> TRUE, message |-> <<>>]

IdleGen == [pc |-> "idle", stream |-> FALSE, fullText |-> <<>>, frags |-> <<>>,
            result |-> "none", failed |-> FALSE, err |-> NotThrown]

\* The server script before its first statement.
ServerInit ==
  /\ spc = "load"
  /\ stdoutWrite = "original"
  /\ consoleRedirected = FALSE
  /\ stdoutLog = <<>>
  /\ stderrLog = <<>>
  /\ serverExit = "none"
  /\ requests = 0
  /\ gen = IdleGen

ClientInit ==
  /\ process = "null"
  /\ procState = "none"
  /\ kills = 0
  /\ connectState = "idle"
  /\ connectError = "none"
  /\ sockets = <<>>
  /\ socket = 0
  /\ messageQueue = <<>>
  /\ currentResolver = 0
  /\ rpcInterface = FALSE
  /\ invokers = {}
  /\ calls = [c \in Calls |-> IdleCall]
  /\ microtasks = <<>>
  /\ sent = <<>>
  /\ arrived = <<>>
  /\ readLog = <<>>
  /\ everOpened = FALSE
  /\ alternating = TRUE

\* A request that keeps only the newest turn.
ModelRequestLastTurn(cs) ==
  [contents |-> IF cs = <<>> THEN <<>> ELSE <<cs[Len(cs)]>>, temperature |-> 0]

\* generateContent({contents, generationConfig: {temperature: 0, ...}})
ModelRequest(cs) == [contents |-> cs, temperature |-> 0]

\* No generateContent call is pending.
NoRequest == ModelRequest(<<>>)

\* this.tools = {}
EmptyRegistry == [n \in {} |-> "none"]

AgentInit ==
  /\ apc = "start"
  /\ child = "none"
  /\ link = "none"
  /\ tools = EmptyRegistry
  /\ discoveries = 0
  /\ listResult = <<>>
  /\ messages = <<>>
  /\ contents = <<>>
  /\ firstParts = <<>>
  /\ idx = 0
  /\ invoked = 0
  /\ followUps = 0
  /\ toolWritten = FALSE
  /\ toolRequests = <<>>
  /\ caught = "none"
  /\ initError = "none"
  /\ agentExit = -1
  /\ loopEntered = FALSE
  /\ turns = 0
  /\ modelRequest = NoRequest

Init == ClientInit /\ ServerInit /\ AgentInit

\* ----------------------------------------------------------------- helpers
\* The event loop runs macrotasks (I/O events, timers) only when no promise
\* continuation is waiting.
LoopIdle == microtasks = <<>>

\* this.socket?.readyState; -1 stands for undefined
ReadyStateOfSocket == IF socket = 0 THEN -1 ELSE sockets[socket].readyState

\* Buffer.concat(list)
RECURSIVE BufferConcat(_)
BufferConcat(list) ==
  IF list = <<>> THEN <<>> ELSE Head(list) \o BufferConcat(Tail(list))

\* ------------------------------------------------------ connect() / process
\* connect(): spawns the child and registers the handlers.
Connect ==
  /\ connectState = "idle"
  /\ connectState' = "pending"
  /\ process' = "child"
  /\ procState' = "running"
  /\ UNCHANGED <<kills, connectError, sockVars, chanVars, callVars>>
  /\ UNCHANGED <<serverVars, agentVars>>

\* resolve() / reject(...) reaching the promise of connect(), either called
\* directly or forwarded from createWebSocket by .then(resolve).catch(reject).
\* Only the first settlement counts.  A timeout callback can do nothing but
\* reject, so once connect() is settled the timers have no effect left: they
\* are dropped, and only the age of the one that rejected (keep) is kept.
SettleConnect(newState, newError, socks, keep) ==
  IF connectState = "pending"
  THEN /\ connectState' = newState
       /\ connectError' = newError
       /\ sockets' = [i \in DOMAIN socks |->
            [socks[i] EXCEPT !.timer = FALSE,
                             !.age = IF i = keep THEN @ ELSE 0]]
  ELSE /\ UNCHANGED connVars
       /\ sockets' = socks

\* process.on('error'): the command could not be executed.
ProcessError ==
  /\ LoopIdle
  /\ procState = "running"
  /\ sockets = <<>>
  /\ procState' = "errored"
  /\ process' = "null"
  /\ SettleConnect("rejected", "exec", sockets, 0)
  /\ UNCHANGED <<kills, socket, rpcInterface, everOpened, chanVars, callVars>>
  /\ UNCHANGED <<serverVars, agentVars>>

\* process.on('exit')
ProcessExit ==
  /\ LoopIdle
  /\ procState = "running"
  /\ procState' = "exited"
  /\ process' = "null"
  /\ UNCHANGED <<kills, connVars, sockVars, chanVars, callVars>>
  /\ UNCHANGED <<serverVars, agentVars>>

\* new WebSocket(wsUrl) with its setTimeout(..., 10000)
NewSocket == [readyState |-> CONNECTING, timer |-> connectState = "pending",
              age |-> 0]

\* stdout.on('data') with a chunk that matches /ws:\/\/localhost:\d+/:
\* createWebSocket(wsUrl) makes a socket, stores it in this.socket and arms
\* the connection timeout.
StdoutMatch ==
  /\ LoopIdle
  /\ procState = "running"
  /\ Len(sockets) < MaxSockets
  /\ sockets' = Append(sockets, NewSocket)
  /\ socket' = Len(sockets) + 1
  /\ UNCHANGED <<procVars, connVars, rpcInterface, everOpened,
                 chanVars, callVars>>
  /\ UNCHANGED <<serverVars, agentVars>>

\* ---------------------------------------------------------------- sockets
\* socket.on('open'): installs this.rpcInterface and resolves.
SocketOpen(i) ==
  /\ LoopIdle
  /\ sockets[i].readyState = CONNECTING
  /\ rpcInterface' = TRUE
  /\ everOpened' = TRUE
  /\ SettleConnect("resolved", "none",
                   [sockets EXCEPT ![i].readyState = OPEN], 0)
  /\ UNCHANGED <<procVars, socket, chanVars, callVars>>
  /\ UNCHANGED <<serverVars, agentVars>>

\* socket.on('error') of a socket that could not connect.
SocketError(i) ==
  /\ LoopIdle
  /\ sockets[i].readyState = CONNECTING
  /\ SettleConnect("rejected", "wsfailed",
                   [sockets EXCEPT ![i].readyState = CLOSED], 0)
  /\ UNCHANGED <<procVars, socket, rpcInterface, everOpened,
                 chanVars, callVars>>
  /\ UNCHANGED <<serverVars, agentVars>>

\* socket.on('close'): the peer closed the socket.  The handler only logs; the
\* end of a closing handshake started by socket.close() changes nothing the
\* client reads and is not followed.
SocketClose(i) ==
  /\ LoopIdle
  /\ sockets[i].readyState = OPEN
  /\ sockets' = [sockets EXCEPT ![i].readyState = CLOSED]
  /\ UNCHANGED <<procVars, connVars, socket, rpcInterface, everOpened,
                 chanVars, callVars>>
  /\ UNCHANGED <<serverVars, agentVars>>

\* Time passes, one step at a time, for every armed connection timeout; the
\* age of a timer is not followed beyond its deadline.
TimeStep == CONNECT_TIMEOUT \div 2

Tick ==
  /\ LoopIdle
  /\ \E i \in DOMAIN sockets :
       sockets[i].timer /\ sockets[i].age < CONNECT_TIMEOUT
  /\ sockets' = [i \in DOMAIN sockets |->
                   IF sockets[i].timer /\ sockets[i].age < CONNECT_TIMEOUT
                   THEN [sockets[i] EXCEPT !.age = @ + TimeStep]
                   ELSE sockets[i]]
  /\ UNCHANGED <<procVars, connVars, socket, rpcInterface, everOpened,
                 chanVars, callVars>>
  /\ UNCHANGED <<serverVars, agentVars>>

\* A timer that runs its callback after half the window.
TimerDueEarly(i) == sockets[i].timer /\ sockets[i].age >= TimeStep

\* setTimeout(..., 10000): the callback of socket i's timer is due.
TimerDue(i) == sockets[i].timer /\ sockets[i].age >= CONNECT_TIMEOUT

\* if (this.socket?.readyState !== WebSocket.OPEN)
TimeoutRejects == ReadyStateOfSocket # OPEN

\* The timeout callback of socket i.
TimerFire(i) ==
  /\ LoopIdle
  /\ TimerDue(i)
  /\ IF TimeoutRejects
     THEN SettleConnect("rejected", "timeout",
                        [sockets EXCEPT ![i].timer = FALSE], i)
     ELSE /\ sockets' = [sockets EXCEPT ![i].timer = FALSE]
          /\ UNCHANGED connVars
  /\ UNCHANGED <<procVars, socket, rpcInterface, everOpened,
                 chanVars, callVars>>
  /\ UNCHANGED <<serverVars, agentVars>>

\* socket.on('message'): hands the buffer to the waiting read(), or queues it.
SocketMessage(i, p) ==
  /\ LoopIdle
  /\ sockets[i].readyState = OPEN
  /\ Len(arrived) < MaxMsgs
  /\ arrived' = Append(arrived, <<p>>)
  /\ IF currentResolver # 0
     THEN /\ calls' = [calls EXCEPT ![currentResolver].pc = "parse",
                                    ![currentResolver].buf = <<p>>]
          /\ microtasks' = Append(microtasks, currentResolver)
          /\ readLog' = Append(readLog, <<p>>)
          /\ currentResolver' = 0
          /\ UNCHANGED messageQueue
     ELSE /\ messageQueue' = Append(messageQueue, <<p>>)
          /\ UNCHANGED <<calls, microtasks, readLog, currentResolver>>
  /\ UNCHANGED <<procVars, connVars, sockVars, invokers, sent,
                 alternating>>
  /\ UNCHANGED <<serverVars, agentVars>>

\* -------------------------------------------------------------- RPC calls
\* The next unused call id.
NextCall(c) ==
  calls[c].pc = "idle" /\ (IF c = 1 THEN TRUE ELSE calls[c - 1].pc # "idle")

Returned(c) == calls[c].pc \in {"idle", "done", "failed"}

\* The channel of the session has been closed: disconnect() dropped the open
\* socket, or this.socket is closing or closed.
ChannelClosed ==
  \/ everOpened /\ socket = 0
  \/ ReadyStateOfSocket \in {CLOSING, CLOSED}

\* rpcInterface.write: if (!this.socket?.readyState) throw
WriteThrows == socket = 0 \/ ReadyStateOfSocket = 0

\* A guard that looks at this.socket instead of this.rpcInterface.
NotConnectedBySocket == socket = 0

\* list_tools / call_tool: if (!this.rpcInterface) throw
NotConnected == ~rpcInterface

Stamp(c, m, a) == [calls[c] EXCEPT !.method = m, !.args = a]

\* A request that leaves the arguments out.
RequestWithoutParams(c, m, a, id) ==
  [sock |-> socket, method |-> m, params |-> "none", call |-> c, id |-> id]

\* const request = {jsonrpc, method, params?, id}; list_tools has no params.
Request(c, m, a, id) ==
  [sock |-> socket, method |-> m, params |-> a, call |-> c, id |-> id]

\* The request is built and rpcInterface.write runs up to the first await.
\* socket.send on a socket that is no longer OPEN either throws or drops the
\* data, depending on the version of the ws package.
Exchange(c, m, a) ==
  /\ alternating' = (alternating /\ \A d \in Calls : Returned(d))
  /\ \E id \in RequestIds :
       IF WriteThrows
       THEN /\ calls' = [calls EXCEPT ![c] = [Stamp(c, m, a) EXCEPT
                            !.pc = "failed", !.err = "WebSocketNotConnected",
                            !.id = id]]
            /\ UNCHANGED <<microtasks, sent>>
       ELSE IF ReadyStateOfSocket = OPEN
       THEN /\ calls' = [calls EXCEPT ![c] = [Stamp(c, m, a) EXCEPT
                            !.pc = "read", !.id = id]]
            /\ microtasks' = Append(microtasks, c)
            /\ sent' = Append(sent, Request(c, m, a, id))
       ELSE \/ /\ calls' = [calls EXCEPT ![c] = [Stamp(c, m, a) EXCEPT
                               !.pc = "failed", !.err = "SendFailed",
                               !.id = id]]
               /\ UNCHANGED <<microtasks, sent>>
            \/ /\ calls' = [calls EXCEPT ![c] = [Stamp(c, m, a) EXCEPT
                               !.pc = "read", !.id = id]]
               /\ microtasks' = Append(microtasks, c)
               /\ UNCHANGED sent

\* list_tools()
ListTools(c) ==
  /\ NextCall(c)
  /\ IF NotConnected
     THEN /\ calls' = [calls EXCEPT ![c] = [Stamp(c, "list_tools", "none") EXCEPT
                          !.pc = "failed", !.err = "NotConnected"]]
          /\ alternating' = (alternating /\ \A d \in Calls : Returned(d))
          /\ UNCHANGED <<microtasks, sent>>
     ELSE Exchange(c, "list_tools", "none")
  /\ UNCHANGED <<procVars, connVars, sockVars, chanVars, invokers>>
  /\ UNCHANGED <<serverVars, agentVars>>

\* call_tool(toolName): throws, or returns an invoker bound to toolName.
CallTool(name) ==
  /\ IF NotConnected
     THEN UNCHANGED invokers
     ELSE invokers' = invokers \cup {name}
  /\ UNCHANGED <<procVars, connVars, sockVars, chanVars, calls, microtasks,
                 sent, alternating>>
  /\ UNCHANGED <<serverVars, agentVars>>

\* The invoker returned by call_tool(name), called with some arguments.
Invoker(c, name, a) ==
  /\ NextCall(c)
  /\ name \in invokers
  /\ Exchange(c, name, a)
  /\ UNCHANGED <<procVars, connVars, sockVars, chanVars, invokers>>
  /\ UNCHANGED <<serverVars, agentVars>>

\* rpcInterface.read, run by call c after its write was awaited.
Read(c) ==
  IF Len(messageQueue) > 0
  THEN LET message == BufferConcat(messageQueue)
       IN /\ messageQueue' = <<>>
          /\ calls' = [calls EXCEPT ![c].pc = "parse", ![c].buf = message]
          /\ readLog' = Append(readLog, message)
          /\ microtasks' = Append(Tail(microtasks), c)
          /\ UNCHANGED currentResolver
  ELSE /\ currentResolver' = c
       /\ calls' = [calls EXCEPT ![c].pc = "waiting"]
       /\ microtasks' = Tail(microtasks)
       /\ UNCHANGED <<messageQueue, readLog>>

\* result.result of a parsed document; a missing field reads as undefined.
ResultOf(doc) == IF doc.kind = "result" THEN doc.val ELSE "undefined"

\* A response handler that never looks at result.error.
ErrorFieldIgnored(doc) == FALSE

\* if (result.error)
ErrorField(doc) == doc.kind = "error"

\* A parse that rejects a response whose id is not the id of the request.
ParseCheckingId(c) ==
  /\ calls' = [calls EXCEPT ![c] =
       IF Len(calls[c].buf) # 1
       THEN [@ EXCEPT !.pc = "failed", !.err = "SyntaxError"]
       ELSE IF calls[c].buf[1].id # calls[c].id
       THEN [@ EXCEPT !.pc = "failed", !.err = "IdMismatch"]
       ELSE IF ErrorField(calls[c].buf[1])
       THEN [@ EXCEPT !.pc = "failed", !.err = "RpcError",
                      !.ret = calls[c].buf[1].val]
       ELSE [@ EXCEPT !.pc = "done", !.ret = ResultOf(calls[c].buf[1])]]
  /\ microtasks' = Tail(microtasks)
  /\ UNCHANGED <<messageQueue, currentResolver, readLog>>

\* JSON.parse(response.toString()) and the error / result branches: several
\* documents in one buffer do not parse, an error field throws an Error with
\* the remote's message, anything else returns result.result.
Parse(c) ==
  /\ calls' = [calls EXCEPT ![c] =
       IF Len(calls[c].buf) # 1
       THEN [@ EXCEPT !.pc = "failed", !.err = "SyntaxError"]
       ELSE IF ErrorField(calls[c].buf[1])
       THEN [@ EXCEPT !.pc = "failed", !.err = "RpcError",
                      !.ret = calls[c].buf[1].val]
       ELSE [@ EXCEPT !.pc = "done", !.ret = ResultOf(calls[c].buf[1])]]
  /\ microtasks' = Tail(microtasks)
  /\ UNCHANGED <<messageQueue, currentResolver, readLog>>

\* The oldest promise continuation runs.
RunMicrotask ==
  /\ microtasks # <<>>
  /\ LET c == Head(microtasks)
     IN IF calls[c].pc = "read" THEN Read(c) ELSE Parse(c)
  /\ UNCHANGED <<procVars, connVars, sockVars, arrived, invokers, sent,
                 alternating>>
  /\ UNCHANGED <<serverVars, agentVars>>

\* disconnect()
Disconnect ==
  /\ IF ReadyStateOfSocket = OPEN
     THEN /\ sockets' = [sockets EXCEPT ![socket].readyState = CLOSING]
          /\ socket' = 0
     ELSE UNCHANGED <<sockets, socket>>
  /\ IF process # "null"
     THEN /\ kills' = kills + 1
          /\ process' = "null"
     ELSE UNCHANGED <<kills, process>>
  /\ UNCHANGED <<procState, connVars, rpcInterface, everOpened, chanVars,
                 callVars>>
  /\ UNCHANGED <<serverVars, agentVars>>

\* ------------------------------------------------------------ specification
Next ==
  \/ Connect
  \/ ProcessError
  \/ ProcessExit
  \/ StdoutMatch
  \/ \E i \in DOMAIN sockets : SocketOpen(i)
  \/ \E i \in DOMAIN sockets : SocketError(i)
  \/ \E i \in DOMAIN sockets : SocketClose(i)
  \/ Tick
  \/ \E i \in DOMAIN sockets : TimerFire(i)
  \/ \E i \in DOMAIN sockets : \E p \in Payloads : SocketMessage(i, p)
  \/ \E c \in Calls : ListTools(c)
  \/ \E name \in ToolNames : CallTool(name)
  \/ \E c \in Calls : \E name \in ToolNames : \E a \in Args :
       Invoker(c, name, a)
  \/ RunMicrotask
  \/ Disconnect

Spec == Init /\ [][Next]_vars

\* The same program with a peer whose responses carry any id.
IdNext ==
  \/ Connect
  \/ ProcessError
  \/ ProcessExit
  \/ StdoutMatch
  \/ \E i \in DOMAIN sockets : SocketOpen(i)
  \/ \E i \in DOMAIN sockets : SocketError(i)
  \/ \E i \in DOMAIN sockets : SocketClose(i)
  \/ Tick
  \/ \E i \in DOMAIN sockets : TimerFire(i)
  \/ \E i \in DOMAIN sockets : \E p \in IdPayloads : SocketMessage(i, p)
  \/ \E c \in Calls : ListTools(c)
  \/ \E name \in ToolNames : CallTool(name)
  \/ \E c \in Calls : \E name \in ToolNames : \E a \in Args :
       Invoker(c, name, a)
  \/ RunMicrotask
  \/ Disconnect

IdSpec == Init /\ [][IdNext]_vars

\* The event loop runs every continuation and every due timer, and time
\* passes; the caller, the child and the peer are not obliged to act.
FairSpec ==
  /\ Spec
  /\ WF_vars(RunMicrotask)
  /\ WF_vars(Tick)
  /\ WF_vars(\E i \in DOMAIN sockets : TimerFire(i))

TypeOK ==
  /\ process \in {"null", "child"}
  /\ procState \in {"none", "running", "exited", "errored"}
  /\ connectState \in {"idle", "pending", "resolved", "rejected"}
  /\ connectError \in {"none", "exec", "wsfailed", "timeout"}
  /\ socket \in 0..Len(sockets)
  /\ currentResolver \in 0..MaxCalls
  /\ Len(sockets) <= MaxSockets
  /\ invokers \subseteq ToolNames
  /\ kills \in 0..1
  /\ rpcInterface = everOpened
  /\ Len(arrived) <= MaxMsgs

\* ================================================== gemini_mcp_server.ts
MaxRequests == 2     \* generate_text requests handled
MaxFrags == 2        \* fragments of one streamed answer

\* Texts are sequences of characters.
\* JSON.stringify({jsonrpc: "2.0", method: "startup",
\*                 params: {transport: "stdio"}}) + '\n'
StartupNotice ==
  <<"{", "\"", "j", "s", "o", "n", "r", "p", "c", "\"", ":", "\"", "2",
    ".", "0", "\"", ",", "\"", "m", "e", "t", "h", "o", "d", "\"", ":",
    "\"", "s", "t", "a", "r", "t", "u", "p", "\"", ",", "\"", "p", "a",
    "r", "a", "m", "s", "\"", ":", "{", "\"", "t", "r", "a", "n", "s", "p",
    "o", "r", "t", "\"", ":", "\"", "s", "t", "d", "i", "o", "\"", "}",
    "}", "\n">>

\* The literal part of the client's pattern /ws:\/\/localhost:\d+/
EndpointPrefix ==
  <<"w", "s", ":", "/", "/", "l", "o", "c", "a", "l", "h", "o", "s", "t",
    ":">>

Digits == {"0", "1", "2", "3", "4", "5", "6", "7", "8", "9"}

\* msg.match(/ws:\/\/localhost:\d+/) succeeds at position i of text t
MatchesAt(t, i) ==
  /\ i + Len(EndpointPrefix) <= Len(t)
  /\ \A k \in 1..Len(EndpointPrefix) : t[i + k - 1] = EndpointPrefix[k]
  /\ t[i + Len(EndpointPrefix)] \in Digits

Matches(t) == \E i \in 1..Len(t) : MatchesAt(t, i)

\* Fragments of generated text, and what a failed model call throws: an Error
\* with a message, a value that is not an Error (here an object with a
\* message property), or a value that cannot be converted to a string (a
\* Symbol, an object without toString), on which args.join(' ') of the
\* replaced console method throws a TypeError.
Fragments == {<<"a">>, <<"b">>}
Thrown == {[isErrorObject |-> TRUE, printable |-> TRUE, message |-> <<"e">>],
           [isErrorObject |-> FALSE, printable |-> TRUE, message |-> <<"m">>],
           [isErrorObject |-> FALSE, printable |-> FALSE, message |-> <<>>]}
InternalError == <<"I", "n", "t", "e", "r", "n", "a", "l", " ",
                   "e", "r", "r", "o", "r">>

Chunk(kind, text) == [kind |-> kind, text |-> text]

\* process.stdout.write(chunk): the original writer, or the redirection to
\* process.stderr.write installed at load time.
StdoutAfterWrite(chunk) ==
  IF stdoutWrite = "original" THEN Append(stdoutLog, chunk) ELSE stdoutLog
StderrAfterWrite(chunk) ==
  IF stdoutWrite = "original" THEN stderrLog ELSE Append(stderrLog, chunk)

\* Console methods that were never replaced.
ConsoleNotReplaced(level) == level \in {"log", "info", "debug"}

\* console.log / info / warn / error / debug: once replaced, every method
\* writes to process.stderr.write; before that log, info and debug go through
\* process.stdout.write and warn and error to stderr.
ConsoleToStdout(level) ==
  ~consoleRedirected /\ level \in {"log", "info", "debug"}

Console(level, text) ==
  LET chunk == Chunk(level, text)
  IN IF ConsoleToStdout(level)
     THEN /\ stdoutLog' = StdoutAfterWrite(chunk)
          /\ stderrLog' = StderrAfterWrite(chunk)
     ELSE /\ stderrLog' = Append(stderrLog, chunk)
          /\ UNCHANGED stdoutLog

\* process.stdout.write(JSON.stringify({... "startup" ...}) + '\n')
EmitStartup ==
  /\ spc = "load"
  /\ spc' = "redirect"
  /\ stdoutLog' = StdoutAfterWrite(Chunk("startup", StartupNotice))
  /\ stderrLog' = StderrAfterWrite(Chunk("startup", StartupNotice))
  /\ UNCHANGED <<stdoutWrite, consoleRedirected, serverExit, requests, gen>>
  /\ UNCHANGED <<clientVars, agentVars>>

\* process.stdout.write = (chunk, ...args) => process.stderr.write(...)
RedirectStdout ==
  /\ spc = "redirect"
  /\ spc' = "console"
  /\ stdoutWrite' = "redirect"
  /\ UNCHANGED <<consoleRedirected, stdoutLog, stderrLog, serverExit,
                 requests, gen>>
  /\ UNCHANGED <<clientVars, agentVars>>

\* consoleMethods.forEach(method => console[method] = ...)
RedirectConsole ==
  /\ spc = "console"
  /\ spc' = "config"
  /\ consoleRedirected' = TRUE
  /\ UNCHANGED <<stdoutWrite, stdoutLog, stderrLog, serverExit, requests, gen>>
  /\ UNCHANGED <<clientVars, agentVars>>

\* config(); the GEMINI_API_KEY check; the handlers; new GeminiMCPServer()
LoadConfig(keyPresent) ==
  /\ spc = "config"
  /\ IF keyPresent
     THEN /\ spc' = "start"
          /\ UNCHANGED <<stdoutLog, stderrLog, serverExit>>
     ELSE /\ Console("error", <<>>)
          /\ spc' = "exited"
          /\ serverExit' = 1
  /\ UNCHANGED <<stdoutWrite, consoleRedirected, requests, gen>>
  /\ UNCHANGED <<clientVars, agentVars>>

\* start() up to await this.server.connect(this.transport): logs, registers
\* the tool and restores process.stdout.write.
Start ==
  /\ spc = "start"
  /\ spc' = "connect"
  /\ Console("info", <<>>)
  /\ stdoutWrite' = "original"
  /\ UNCHANGED <<consoleRedirected, serverExit, requests, gen>>
  /\ UNCHANGED <<clientVars, agentVars>>

\* server.connect resolved: the server waits for messages.
TransportConnected ==
  /\ spc = "connect"
  /\ spc' = "steady"
  /\ Console("info", <<>>)
  /\ UNCHANGED <<stdoutWrite, consoleRedirected, serverExit, requests, gen>>
  /\ UNCHANGED <<clientVars, agentVars>>

\* server.connect rejected: catch, console.error, process.exit(1)
TransportFailed ==
  /\ spc = "connect"
  /\ spc' = "exited"
  /\ serverExit' = 1
  /\ Console("error", <<>>)
  /\ UNCHANGED <<stdoutWrite, consoleRedirected, requests, gen>>
  /\ UNCHANGED <<clientVars, agentVars>>

\* process.on('SIGINT')
Sigint ==
  /\ spc \in {"start", "connect", "steady"}
  /\ spc' = "exited"
  /\ serverExit' = 0
  /\ Console("info", <<>>)
  /\ UNCHANGED <<stdoutWrite, consoleRedirected, requests, gen>>
  /\ UNCHANGED <<clientVars, agentVars>>

\* generateText(params) up to its first await: logs the prompt and calls
\* chat.sendMessageStream or chat.sendMessage.
GenStart(stream) ==
  /\ spc = "steady"
  /\ gen.pc = "idle"
  /\ requests < MaxRequests
  /\ requests' = requests + 1
  /\ Console("log", <<"p">>)
  /\ gen' = [IdleGen EXCEPT !.pc = IF stream THEN "awaitStream" ELSE "awaitModel",
                            !.stream = stream]
  /\ UNCHANGED <<spc, stdoutWrite, consoleRedirected, serverExit>>
  /\ UNCHANGED <<clientVars, agentVars>>

\* A fragment that replaces the text accumulated so far.
AccumulateLast(fullText, chunkText) == chunkText

\* fullText += chunkText
Accumulate(fullText, chunkText) == fullText \o chunkText

TextResult(text) == [text |-> text, isError |-> FALSE]

\* An error result that always carries the message of what was thrown.
ErrorResultOfMessage(err) == [text |-> err.message, isError |-> TRUE]

\* catch (err): the result carries err.message, or 'Internal error'
ErrorResult(err) ==
  [text |-> IF err.isErrorObject THEN err.message ELSE InternalError,
   isError |-> TRUE]

\* await this.chat.sendMessageStream(prompt) resolved: the loop starts.
StreamOpened ==
  /\ spc = "steady"
  /\ gen.pc = "awaitStream"
  /\ gen' = [gen EXCEPT !.pc = "streaming"]
  /\ UNCHANGED <<spc, stdoutWrite, consoleRedirected, stdoutLog, stderrLog,
                 serverExit, requests>>
  /\ UNCHANGED <<clientVars, agentVars>>

\* for await (const chunk of result.stream): one more chunk
StreamChunk(f) ==
  /\ spc = "steady"
  /\ gen.pc = "streaming"
  /\ Len(gen.frags) < MaxFrags
  /\ gen' = [gen EXCEPT !.fullText = Accumulate(@, f),
                        !.frags = Append(@, f)]
  /\ UNCHANGED <<spc, stdoutWrite, consoleRedirected, stdoutLog, stderrLog,
                 serverExit, requests>>
  /\ UNCHANGED <<clientVars, agentVars>>

\* The stream ends: the text is logged and returned.
StreamEnd ==
  /\ spc = "steady"
  /\ gen.pc = "streaming"
  /\ Console("log", gen.fullText)
  /\ gen' = [gen EXCEPT !.pc = "returned", !.result = TextResult(gen.fullText)]
  /\ UNCHANGED <<spc, stdoutWrite, consoleRedirected, serverExit, requests>>
  /\ UNCHANGED <<clientVars, agentVars>>

\* await this.chat.sendMessage(prompt) resolved with the whole text.
ModelReturns(text) ==
  /\ spc = "steady"
  /\ gen.pc = "awaitModel"
  /\ Console("log", text)
  /\ gen' = [gen EXCEPT !.pc = "returned", !.result = TextResult(text)]
  /\ UNCHANGED <<spc, stdoutWrite, consoleRedirected, serverExit, requests>>
  /\ UNCHANGED <<clientVars, agentVars>>

\* The model call, the stream or chunk.text() throws: catch (err) logs the
\* value with console.error and returns the error result.  When the value
\* cannot be converted to a string console.error throws inside the catch
\* block and the promise of generateText is rejected.
ModelFails(err) ==
  /\ spc = "steady"
  /\ gen.pc \in {"awaitModel", "awaitStream", "streaming"}
  /\ IF err.printable
     THEN /\ Console("error", err.message)
          /\ gen' = [gen EXCEPT !.pc = "returned", !.failed = TRUE,
                                !.err = err, !.result = ErrorResult(err)]
     ELSE /\ UNCHANGED <<stdoutLog, stderrLog>>
          /\ gen' = [gen EXCEPT !.pc = "rejected", !.failed = TRUE,
                                !.err = err]
  /\ UNCHANGED <<spc, stdoutWrite, consoleRedirected, serverExit, requests>>
  /\ UNCHANGED <<clientVars, agentVars>>

\* The transport writes the response that carries the handler's result to
\* process.stdout.
SendResponse ==
  /\ spc = "steady"
  /\ gen.pc = "returned"
  /\ stdoutLog' = StdoutAfterWrite(
                    Chunk("response", <<"{">> \o gen.result.text \o <<"}">>))
  /\ stderrLog' = StderrAfterWrite(
                    Chunk("response", <<"{">> \o gen.result.text \o <<"}">>))
  /\ gen' = IdleGen
  /\ UNCHANGED <<spc, stdoutWrite, consoleRedirected, serverExit, requests>>
  /\ UNCHANGED <<clientVars, agentVars>>

ServerNext ==
  \/ EmitStartup
  \/ RedirectStdout
  \/ RedirectConsole
  \/ \E keyPresent \in BOOLEAN : LoadConfig(keyPresent)
  \/ Start
  \/ TransportConnected
  \/ TransportFailed
  \/ Sigint
  \/ \E stream \in BOOLEAN : GenStart(stream)
  \/ StreamOpened
  \/ \E f \in Fragments : StreamChunk(f)
  \/ StreamEnd
  \/ \E text \in Fragments : ModelReturns(text)
  \/ \E err \in Thrown : ModelFails(err)
  \/ SendResponse

ServerSpec == Init /\ [][ServerNext]_vars

\* =================================================== gemini_mcp_agent.ts
MaxTools == 2        \* tools in one list_tools() result
MaxParts == 2        \* parts of the first model response of a turn
MaxTurns == 2        \* prompts entered at the interactive loop

\* Names a provider can list and the model can ask for.
AgentToolNames == {"echo", "add"}
Inputs == {"q"}
ToolResults == {"r"}

\* A part of a Content: a text, a functionCall or a functionResponse.
Text(t) == [kind |-> "text", name |-> "none", arg |-> t]
FunctionCall(name, args) ==
  [kind |-> "functionCall", name |-> name, arg |-> args]
FunctionResponse(name, result) ==
  [kind |-> "functionResponse", name |-> name, arg |-> result]

Content(role, parts) == [role |-> role, parts |-> parts]
SystemPrompt == Content("system", <<Text("SYSTEM_PROMPT")>>)

\* Parts the model can put in a response.
ModelParts ==
  {Text("t")} \cup {FunctionCall(n, a) : n \in AgentToolNames, a \in Args}
FirstResponses == UNION {[1..n -> ModelParts] : n \in 1..MaxParts}
FollowUpResponses ==
  {<<Text("t")>>} \cup {<<FunctionCall("echo", a)>> : a \in Args}

\* Tool descriptions in a list_tools() result.
ToolLists ==
  UNION {[1..n -> {[name |-> t] : t \in AgentToolNames}] : n \in 0..MaxTools}

\* An invoker whose requests carry another tool's name.
BindFixed(tool) == [name |-> tool.name, method |-> "echo"]

\* acc[tool.name] = {name: tool.name, callable: call_tool(tool.name), ...}:
\* the invoker returned by call_tool(toolName) sends method: toolName.
Bind(tool) == [name |-> tool.name, method |-> tool.name]

Put(acc, key, value) ==
  [n \in DOMAIN acc \cup {key} |-> IF n = key THEN value ELSE acc[n]]

\* mcpTools.reduce((acc, tool) => { acc[tool.name] = ...; return acc }, {})
RECURSIVE Reduce(_, _)
Reduce(acc, list) ==
  IF list = <<>> THEN acc
  ELSE Reduce(Put(acc, Head(list).name, Bind(Head(list))), Tail(list))

\* What a property lookup gives for a name that is not in the object.
Undefined == [name |-> "undefined", method |-> "undefined"]

\* A lookup that makes up an invoker for a name that was never registered.
LookupOrBind(registry, name) ==
  IF name \in DOMAIN registry THEN registry[name]
  ELSE [name |-> name, method |-> name]

\* this.tools[name]
Lookup(registry, name) ==
  IF name \in DOMAIN registry THEN registry[name] ELSE Undefined

\* Index of the first part from position i on that has a functionCall, 0 if
\* there is none: the parts without one are skipped by the loop.
NextFunctionCall(parts, i) ==
  IF \E k \in i..Len(parts) : parts[k].kind = "functionCall"
  THEN CHOOSE k \in i..Len(parts) :
         /\ parts[k].kind = "functionCall"
         /\ \A j \in i..(k - 1) : parts[j].kind # "functionCall"
  ELSE 0

\* return contents; main assigns the result to messages
TurnReturns(cs) ==
  /\ messages' = cs
  /\ contents' = <<>>
  /\ idx' = 0
  /\ apc' = "prompt"
  /\ UNCHANGED <<invoked, toolWritten, toolRequests, caught>>

\* processUserInput rejects: the per-turn catch of main logs the error and the
\* loop asks for the next prompt.
TurnThrows(what) ==
  /\ caught' = what
  /\ contents' = <<>>
  /\ idx' = 0
  /\ apc' = "prompt"
  /\ UNCHANGED <<messages, invoked, toolWritten, toolRequests>>

\* await this.tools[name].callable(args): the invoker writes its request when
\* the socket is open and waits for the response.
Invoke(cs, k, entry, args) ==
  /\ contents' = cs
  /\ idx' = k
  /\ invoked' = invoked + 1
  /\ apc' = "tool"
  /\ toolWritten' = (link = "open")
  /\ toolRequests' = IF link = "open"
                     THEN Append(toolRequests,
                                 [method |-> entry.method, params |-> args])
                     ELSE toolRequests
  /\ UNCHANGED <<messages, caught>>

\* for (const part of parts) from position i on, up to the next await.
RunLoop(cs, parts, i) ==
  LET k == NextFunctionCall(parts, i)
  IN IF k = 0 THEN TurnReturns(cs)
     ELSE LET entry == Lookup(tools, parts[k].name)
          IN IF entry = Undefined THEN TurnThrows("lookup")
             ELSE Invoke(cs, k, entry, parts[k].arg)

\* process.exit(code)
Exit(code) ==
  /\ apc' = "exited"
  /\ agentExit' = code

\* main().catch: console.error('Fatal error:', error); process.exit(1)
Fatal(what) ==
  /\ initError' = what
  /\ Exit(1)

\* main() up to await this.mcpClient.connect(): the configuration is read,
\* the agent is built and connect() spawns the provider.
AgentStart(configOk) ==
  /\ apc = "start"
  /\ IF configOk
     THEN /\ apc' = "connecting"
          /\ child' = "running"
          /\ UNCHANGED <<initError, agentExit>>
     ELSE /\ Fatal("config")
          /\ UNCHANGED child
  /\ UNCHANGED <<link, tools, discoveries, listResult, messages, contents,
                 firstParts, idx, invoked, followUps, toolWritten,
                 toolRequests, caught, loopEntered, turns>>
  /\ UNCHANGED modelRequest
  /\ UNCHANGED <<clientVars, serverVars>>

\* The child's 'error' event: connect() rejects.
SpawnError ==
  /\ apc = "connecting"
  /\ child = "running"
  /\ link = "none"
  /\ child' = "exited"
  /\ Fatal("spawn")
  /\ UNCHANGED <<link, tools, discoveries, listResult, messages, contents,
                 firstParts, idx, invoked, followUps, toolWritten,
                 toolRequests, caught, loopEntered, turns>>
  /\ UNCHANGED modelRequest
  /\ UNCHANGED <<clientVars, serverVars>>

\* The child's 'exit' event: this.process = null and nothing else.  Once
\* connect() has settled the agent reads the child's state only in
\* disconnect(), so the event is followed while connect() is pending.
ChildExits ==
  /\ apc = "connecting"
  /\ child = "running"
  /\ child' = "exited"
  /\ UNCHANGED <<apc, link, tools, discoveries, listResult, messages,
                 contents, firstParts, idx, invoked, followUps, toolWritten,
                 toolRequests, caught, initError, agentExit, loopEntered,
                 turns>>
  /\ UNCHANGED modelRequest
  /\ UNCHANGED <<clientVars, serverVars>>

\* A stdout chunk of the child matches the endpoint pattern: createWebSocket
\* opens a socket and arms the connection timer.
EndpointSeen ==
  /\ apc = "connecting"
  /\ child = "running"
  /\ link = "none"
  /\ link' = "socket"
  /\ UNCHANGED <<apc, child, tools, discoveries, listResult, messages,
                 contents, firstParts, idx, invoked, followUps, toolWritten,
                 toolRequests, caught, initError, agentExit, loopEntered,
                 turns>>
  /\ UNCHANGED modelRequest
  /\ UNCHANGED <<clientVars, serverVars>>

\* The socket's 'open': connect() resolves and setupTools calls list_tools().
ConnectResolves ==
  /\ apc = "connecting"
  /\ link = "socket"
  /\ link' = "open"
  /\ apc' = "listing"
  /\ UNCHANGED <<child, tools, discoveries, listResult, messages, contents,
                 firstParts, idx, invoked, followUps, toolWritten,
                 toolRequests, caught, initError, agentExit, loopEntered,
                 turns>>
  /\ UNCHANGED modelRequest
  /\ UNCHANGED <<clientVars, serverVars>>

\* The socket's 'error' or the connection timer: connect() rejects.
ConnectRejects ==
  /\ apc = "connecting"
  /\ link = "socket"
  /\ link' = "closed"
  /\ Fatal("connect")
  /\ UNCHANGED <<child, tools, discoveries, listResult, messages, contents,
                 firstParts, idx, invoked, followUps, toolWritten,
                 toolRequests, caught, loopEntered, turns>>
  /\ UNCHANGED modelRequest
  /\ UNCHANGED <<clientVars, serverVars>>

\* The socket's 'close' after it was open: pending reads stay pending.
LinkCloses ==
  /\ apc \in {"listing", "prompt", "model", "tool", "followup"}
  /\ link = "open"
  /\ link' = "closed"
  /\ UNCHANGED <<apc, child, tools, discoveries, listResult, messages,
                 contents, firstParts, idx, invoked, followUps, toolWritten,
                 toolRequests, caught, initError, agentExit, loopEntered,
                 turns>>
  /\ UNCHANGED modelRequest
  /\ UNCHANGED <<clientVars, serverVars>>

\* list_tools() resolved with a list: setupTools builds this.tools, initialize
\* resolves and main enters the interactive loop.
ListToolsResolves(list) ==
  /\ apc = "listing"
  /\ link = "open"
  /\ listResult' = list
  /\ tools' = Reduce(EmptyRegistry, list)
  /\ discoveries' = discoveries + 1
  /\ loopEntered' = TRUE
  /\ apc' = "prompt"
  /\ UNCHANGED <<child, link, messages, contents, firstParts, idx, invoked,
                 followUps, toolWritten, toolRequests, caught, initError,
                 agentExit, turns>>
  /\ UNCHANGED modelRequest
  /\ UNCHANGED <<clientVars, serverVars>>

\* list_tools() rejected (an error response), or its result is not a list
\* and reduce throws: setupTools rejects.
ListToolsRejects ==
  /\ apc = "listing"
  /\ link = "open"
  /\ Fatal("discovery")
  /\ UNCHANGED <<child, link, tools, discoveries, listResult, messages,
                 contents, firstParts, idx, invoked, followUps, toolWritten,
                 toolRequests, caught, loopEntered, turns>>
  /\ UNCHANGED modelRequest
  /\ UNCHANGED <<clientVars, serverVars>>

\* A system prompt put in front of every history.
WithSystemAlways(msgs) == <<SystemPrompt>> \o msgs

\* if (messages.length === 0) messages.push({role: 'system', ...})
WithSystem(msgs) == IF Len(msgs) = 0 THEN <<SystemPrompt>> ELSE msgs

\* A prompt is entered: processUserInput up to the first generateContent.
\* The system prompt is pushed into the caller's array when it is empty.
UserInput(input) ==
  /\ apc = "prompt"
  /\ turns < MaxTurns
  /\ turns' = turns + 1
  /\ messages' = WithSystem(messages)
  /\ contents' = Append(WithSystem(messages), Content("user", <<Text(input)>>))
  /\ firstParts' = <<>>
  /\ invoked' = 0
  /\ followUps' = 0
  /\ caught' = "none"
  /\ apc' = "model"
  /\ UNCHANGED <<child, link, tools, discoveries, listResult, idx,
                 toolWritten, toolRequests, initError, agentExit, loopEntered>>
  /\ modelRequest' = ModelRequest(contents')
  /\ UNCHANGED <<clientVars, serverVars>>

\* 'quit': break, finally readline.close() and agent.disconnect(); main ends.
Quit ==
  /\ apc = "prompt"
  /\ apc' = "done"
  /\ agentExit' = 0
  /\ link' = IF link = "open" THEN "closed" ELSE link
  /\ child' = IF child = "running" THEN "exited" ELSE child
  /\ UNCHANGED <<tools, discoveries, listResult, messages, contents,
                 firstParts, idx, invoked, followUps, toolWritten,
                 toolRequests, caught, initError, loopEntered, turns>>
  /\ UNCHANGED modelRequest
  /\ UNCHANGED <<clientVars, serverVars>>

\* The first response arrives with parts: it is pushed and the loop starts.
ModelResponds(parts) ==
  /\ apc = "model"
  /\ firstParts' = parts
  /\ RunLoop(Append(contents, Content("model", parts)), parts, 1)
  /\ UNCHANGED <<child, link, tools, discoveries, listResult, followUps,
                 initError, agentExit, loopEntered, turns>>
  /\ modelRequest' = NoRequest
  /\ UNCHANGED <<clientVars, serverVars>>

\* generateContent rejects or the response has no parts.
ModelInvalid ==
  /\ apc \in {"model", "followup"}
  /\ TurnThrows(apc)
  /\ UNCHANGED <<child, link, tools, discoveries, listResult, firstParts,
                 followUps, initError, agentExit, loopEntered, turns>>
  /\ modelRequest' = NoRequest
  /\ UNCHANGED <<clientVars, serverVars>>

\* The invoker resolves: the functionResponse is pushed and the follow-up
\* request is made.
ToolResolves(result) ==
  /\ apc = "tool"
  /\ toolWritten
  /\ link = "open"
  /\ contents' = Append(contents,
       Content("user", <<FunctionResponse(firstParts[idx].name, result)>>))
  /\ followUps' = followUps + 1
  /\ toolWritten' = FALSE
  /\ apc' = "followup"
  /\ UNCHANGED <<child, link, tools, discoveries, listResult, messages,
                 firstParts, idx, invoked, toolRequests, caught, initError,
                 agentExit, loopEntered, turns>>
  /\ modelRequest' = ModelRequest(contents')
  /\ UNCHANGED <<clientVars, serverVars>>

\* The invoker rejects (an error response, or the write failed): nothing
\* catches it inside processUserInput.
ToolRejects ==
  /\ apc = "tool"
  /\ toolWritten => link = "open"
  /\ caught' = "tool"
  /\ contents' = <<>>
  /\ idx' = 0
  /\ toolWritten' = FALSE
  /\ apc' = "prompt"
  /\ UNCHANGED <<child, link, tools, discoveries, listResult, messages,
                 firstParts, invoked, followUps, toolRequests, initError,
                 agentExit, loopEntered, turns>>
  /\ UNCHANGED modelRequest
  /\ UNCHANGED <<clientVars, serverVars>>

\* The follow-up response arrives with parts: it is pushed and the loop goes
\* on with the next part of the first response.
FollowUpResponds(parts) ==
  /\ apc = "followup"
  /\ RunLoop(Append(contents, Content("model", parts)), firstParts, idx + 1)
  /\ UNCHANGED <<child, link, tools, discoveries, listResult, firstParts,
                 followUps, initError, agentExit, loopEntered, turns>>
  /\ modelRequest' = NoRequest
  /\ UNCHANGED <<clientVars, serverVars>>

AgentNext ==
  \/ \E configOk \in BOOLEAN : AgentStart(configOk)
  \/ SpawnError
  \/ ChildExits
  \/ EndpointSeen
  \/ ConnectResolves
  \/ ConnectRejects
  \/ LinkCloses
  \/ \E list \in ToolLists : ListToolsResolves(list)
  \/ ListToolsRejects
  \/ \E input \in Inputs : UserInput(input)
  \/ Quit
  \/ \E parts \in FirstResponses : ModelResponds(parts)
  \/ ModelInvalid
  \/ \E result \in ToolResults : ToolResolves(result)
  \/ ToolRejects
  \/ \E parts \in FollowUpResponses : FollowUpResponds(parts)

AgentSpec == Init /\ [][AgentNext]_vars

\* The connection timer fires and promise continuations run: once a socket
\* was created connect() settles.
AgentFairSpec ==
  /\ AgentSpec
  /\ WF_vars(ConnectResolves \/ ConnectRejects)

AgentTypeOK ==
  /\ apc \in {"start", "connecting", "listing", "prompt", "model", "tool",
              "followup", "exited", "done"}
  /\ child \in {"none", "running", "exited"}
  /\ link \in {"none", "socket", "open", "closed"}
  /\ DOMAIN tools \subseteq AgentToolNames
  /\ discoveries \in 0..1
  /\ idx \in 0..MaxParts
  /\ invoked \in 0..MaxParts
  /\ followUps \in 0..MaxParts
  /\ toolWritten \in BOOLEAN
  /\ caught \in {"none", "lookup", "tool", "model", "followup"}
  /\ initError \in {"none", "config", "spawn", "connect", "discovery"}
  /\ agentExit \in {-1, 0, 1}
  /\ loopEntered \in BOOLEAN
  /\ turns \in 0..MaxTurns

\* ------------------------------------------------------------------ claims
IsPrefix(a, b) ==
  Len(a) <= Len(b) /\ \A k \in DOMAIN a : a[k] = b[k]

Outstanding == {c \in Calls : calls[c].pc \in {"read", "waiting"}}

NotConnectedErrors == {"NotConnected", "WebSocketNotConnected", "SendFailed"}

\* C1: a read() that finds messages queued returns exactly the oldest queued
\* message and leaves the others queued, so that one queued message is
\* returned by the next read() and two queued messages are returned by the
\* next two read() calls, one per call, in arrival order.
C1_QueuedReadIsFifo ==
  [][(/\ microtasks # <<>>
      /\ calls[Head(microtasks)].pc = "read"
      /\ messageQueue # <<>>
      /\ RunMicrotask)
     => (/\ calls'[Head(microtasks)].buf = Head(messageQueue)
         /\ messageQueue' = Tail(messageQueue))]_vars

\* C2: in every run in which each call is started only after the previous
\* one returned (write and read strictly alternate), the results of read()
\* are, in order, whole messages of the peer: the k-th read result is the
\* k-th message that arrived, none split, merged, dropped or duplicated.
C2_AlternatingReadsAreWholeMessages ==
  alternating => IsPrefix(readLog, arrived)

\* C3: at most one RPC exchange is outstanding (written, response not yet
\* taken) and at most one read() is suspended, in every reachable state.
C3_SingleFlight ==
  /\ Cardinality(Outstanding) <= 1
  /\ Cardinality({c \in Calls : calls[c].pc = "waiting"}) <= 1

\* C4: a read() that is pending when disconnect() has closed the channel
\* eventually resolves as a failure.
C4_PendingReadFailsOnClose ==
  \A c \in Calls :
    (calls[c].pc = "waiting" /\ socket = 0) ~> (calls[c].pc = "failed")

\* C5: when the child has exited or failed by itself before any endpoint was
\* seen on its output, the pending connect() is eventually rejected.
C5_ConnectFailsWhenProcessGone ==
  (procState \in {"exited", "errored"} /\ sockets = <<>> /\ kills = 0)
    ~> (connectState = "rejected")

\* C6: connect() is rejected with the timeout error only when the window of
\* CONNECT_TIMEOUT time units has elapsed for the timer that rejects, and once
\* a timeout callback has run in a connect() that was still pending, connect()
\* is rejected with the timeout error.
C6_TimeoutAtWindow ==
  /\ connectError = "timeout" =>
       \E i \in DOMAIN sockets : sockets[i].age >= CONNECT_TIMEOUT
  /\ \A i \in DOMAIN sockets :
       (~sockets[i].timer /\ sockets[i].age > 0) =>
         (connectState = "rejected" /\ connectError = "timeout")

C6_Witness ==
  /\ connectState = "rejected"
  /\ connectError = "timeout"
  /\ ~everOpened
  /\ \E i \in DOMAIN sockets : sockets[i].age >= CONNECT_TIMEOUT

\* C7: once the channel is closed, every call started afterwards fails with a
\* not-connected error and sends nothing.
C7_ClosedChannelFailsCalls ==
  [][\A c \in Calls :
       (ChannelClosed /\ calls[c].pc = "idle" /\ calls'[c].pc # "idle")
         => (/\ calls'[c].pc = "failed"
             /\ calls'[c].err \in NotConnectedErrors
             /\ sent' = sent)]_vars

\* C8: as long as no socket has reached the open state, every list_tools()
\* made has failed with the not-connected error, call_tool() has returned no
\* invoker, and nothing has been written to the transport.
C8_NotConnectedBeforeOpen ==
  ~everOpened =>
    /\ invokers = {}
    /\ sent = <<>>
    /\ \A c \in Calls :
         calls[c].pc # "idle" =>
           (calls[c].pc = "failed" /\ calls[c].err = "NotConnected")

C8_Witness ==
  /\ ~everOpened
  /\ socket # 0
  /\ \E c \in Calls : calls[c].pc = "failed" /\ calls[c].err = "NotConnected"

\* C9: after disconnect() the session's socket is released (no socket of the
\* session is left connecting or open) and the child is no longer held, so
\* that a second disconnect() in a row changes nothing, closes no socket and
\* sends no signal.
C9_DisconnectReleases ==
  [][Disconnect =>
       (/\ process' = "null"
        /\ ReadyStateOfSocket' \notin {CONNECTING, OPEN}
        /\ \A i \in DOMAIN sockets' :
             sockets'[i].readyState \notin {CONNECTING, OPEN})]_vars

\* C10: the endpoint is discovered at most once: at most one socket is ever
\* created in a session, and this.socket never moves to a later socket.
C10_EndpointDiscoveredOnce ==
  Len(sockets) <= 1 /\ socket <= 1

\* C11: a call whose response carries an error field fails, with the remote's
\* message as its message, and returns no result.
C11_ErrorFieldRejects ==
  \A c \in Calls :
    (/\ calls[c].pc \in {"done", "failed"}
     /\ Len(calls[c].buf) = 1
     /\ calls[c].buf[1].kind = "error")
    => (/\ calls[c].pc = "failed"
        /\ calls[c].err = "RpcError"
        /\ calls[c].ret = calls[c].buf[1].val)

C11_Witness ==
  \E c \in Calls :
    /\ calls[c].pc = "failed"
    /\ calls[c].err = "RpcError"
    /\ calls[c].buf = <<[kind |-> "error", val |-> 2, id |-> 1]>>
    /\ calls[c].ret = 2

\* C12: a call whose response has neither a result nor an error field fails
\* with a protocol error and is never returned as a success.
C12_EmptyResponseRejects ==
  \A c \in Calls :
    (/\ calls[c].pc \in {"done", "failed"}
     /\ Len(calls[c].buf) = 1
     /\ calls[c].buf[1].kind = "neither")
    => (calls[c].pc = "failed" /\ calls[c].err = "ProtocolError")

RequestsOf(c) == {k \in DOMAIN sent : sent[k].call = c}

\* C15: a call on an open socket writes exactly one request, whose method is
\* the tool name (list_tools for list_tools()) and whose params are the
\* caller's arguments unchanged (none for list_tools()); no call ever has more
\* than one request on the transport; and a call that is answered with a
\* result R returns exactly R.
C15_RequestAndResultPassThrough ==
  /\ [](\A c \in Calls :
          /\ Cardinality(RequestsOf(c)) <= 1
          /\ \A k \in RequestsOf(c) :
               /\ sent[k].method = calls[c].method
               /\ sent[k].params = calls[c].args
               /\ sent[k].method = "list_tools" => sent[k].params = "none"
               /\ sent[k].method # "list_tools" => sent[k].params \in Args
          /\ (calls[c].pc = "done" /\ calls[c].buf[1].kind = "result")
               => calls[c].ret = calls[c].buf[1].val)
  /\ [][/\ \A c \in Calls : \A name \in ToolNames : \A a \in Args :
             (Invoker(c, name, a) /\ ReadyStateOfSocket = OPEN)
               => sent' = Append(sent, [sock |-> socket, method |-> name,
                                        params |-> a, call |-> c,
                                        id |-> calls'[c].id])
        /\ \A c \in Calls :
             (ListTools(c) /\ ReadyStateOfSocket = OPEN)
               => sent' = Append(sent, [sock |-> socket,
                                        method |-> "list_tools",
                                        params |-> "none", call |-> c,
                                        id |-> calls'[c].id])]_vars

C15_Witness ==
  \E c \in Calls :
    /\ calls[c].pc = "done"
    /\ calls[c].method = "echo"
    /\ calls[c].args = "hi"
    /\ calls[c].ret = 1
    /\ \E k \in DOMAIN sent :
         sent[k].call = c /\ sent[k].method = "echo" /\ sent[k].params = "hi"

\* Chunks on the server's stdout that the client's pattern matches.
Announcements == {k \in DOMAIN stdoutLog : Matches(stdoutLog[k].text)}

\* C18: when the provider has reached its steady state it has written to its
\* stdout exactly one chunk that the client's endpoint pattern matches.
C18_ProviderAnnouncesEndpoint ==
  spc = "steady" => Cardinality(Announcements) = 1

RECURSIVE Flatten(_)
Flatten(list) ==
  IF list = <<>> THEN <<>> ELSE Head(list) \o Flatten(Tail(list))

\* C19: a streamed generate_text that returns a text returns the fragments
\* of the stream concatenated in arrival order, each once, and nothing is
\* returned while the stream is still being read.
C19_StreamedTextIsConcatenation ==
  /\ (gen.pc = "returned" /\ gen.stream /\ ~gen.result.isError)
       => gen.result.text = Flatten(gen.frags)
  /\ gen.pc \in {"awaitStream", "streaming"} => gen.result = "none"

C19_Witness ==
  /\ gen.pc = "returned"
  /\ gen.stream
  /\ gen.frags = << <<"a">>, <<"b">> >>
  /\ gen.result = [text |-> <<"a", "b">>, isError |-> FALSE]

\* Names in the list that list_tools() returned to setupTools.
ListedNames == {listResult[j].name : j \in DOMAIN listResult}

\* The next functionCall of parts from position i on names a tool that was
\* not listed.
UnknownDirective(parts, i) ==
  /\ NextFunctionCall(parts, i) # 0
  /\ parts[NextFunctionCall(parts, i)].name \notin ListedNames

\* C13: every request an invoker wrote to the transport carries a listed
\* tool name, and when the loop reaches a functionCall for a name that was
\* not listed the turn fails in the registry lookup and nothing is written.
C13_UnknownToolFailsLocally ==
  /\ [](\A k \in DOMAIN toolRequests : toolRequests[k].method \in ListedNames)
  /\ [][(\/ /\ apc = "model"
            /\ firstParts' # <<>>
            /\ UnknownDirective(firstParts', 1)
         \/ /\ apc = "followup"
            /\ apc' # "followup"
            /\ caught' # "followup"
            /\ UnknownDirective(firstParts, idx + 1))
        => (caught' = "lookup" /\ toolRequests' = toolRequests)]_vars

C13_Witness ==
  /\ discoveries = 1
  /\ listResult = <<[name |-> "echo"]>>
  /\ firstParts = <<FunctionCall("add", "hi")>>
  /\ caught = "lookup"
  /\ toolRequests = <<>>

\* C14: this.tools is built at most once, is empty before that, and afterwards
\* its names are the names of the list list_tools() returned, each name with
\* one invoker that sends that name as the request method.
C14_RegistryMatchesDiscovery ==
  /\ discoveries <= 1
  /\ discoveries = 0 => tools = EmptyRegistry
  /\ discoveries = 1 =>
       /\ DOMAIN tools = ListedNames
       /\ \A n \in DOMAIN tools : tools[n].name = n /\ tools[n].method = n

C14_Witness ==
  /\ discoveries = 1
  /\ listResult = <<[name |-> "echo"], [name |-> "add"]>>
  /\ DOMAIN tools = {"echo", "add"}
  /\ tools["add"].method = "add"

\* C16: whenever a pending tool invocation settles the turn goes on: a tool
\* result is appended to the conversation and the follow-up request is made.
C16_ToolFailureIsReported ==
  [][(apc = "tool" /\ apc' # "tool")
       => /\ apc' = "followup"
          /\ Len(contents') = Len(contents) + 1
          /\ contents'[Len(contents')].parts[1].kind = "functionResponse"]_vars

\* C17: a failure caught by main().catch ends the process with exit code 1
\* before the interactive loop is entered, a failure inside a turn leaves the
\* loop asking for the next prompt, and when the spawned provider has exited
\* while connect() is pending the agent ends with exit code 1.
C17_InitFailureIsFatal ==
  /\ [](initError # "none" => (agentExit = 1 /\ ~loopEntered))
  /\ [][(apc \in {"model", "tool", "followup"} /\ caught' # "none")
          => (apc' = "prompt" /\ agentExit' = -1)]_vars
  /\ (apc = "connecting" /\ child = "exited") ~> (agentExit = 1)

\* Number of parts with a functionCall.
NumFunctionCalls(parts) ==
  Cardinality({k \in DOMAIN parts : parts[k].kind = "functionCall"})

\* C20: when a turn whose first response asks only for registered tools has
\* ended, the invokers were called once per functionCall part of the first
\* response and one follow-up request was made per call; during the turn
\* there are never more calls than functionCall parts.
C20_OneRoundPerFunctionCall ==
  /\ invoked <= NumFunctionCalls(firstParts)
  /\ followUps <= invoked
  /\ (/\ apc = "prompt"
      /\ \A k \in DOMAIN firstParts :
           firstParts[k].kind = "functionCall"
             => firstParts[k].name \in DOMAIN tools)
       => /\ invoked = NumFunctionCalls(firstParts)
          /\ followUps = invoked

\* C21: the history held by the loop only grows by appending, the working
\* copy of a turn extends it, and the generateContent request that is pending
\* carries the whole working copy, the functionResponse turns included.
C21_HistoryIsAppendOnly ==
  /\ [][IsPrefix(messages, messages')]_vars
  /\ [][(apc = "tool" /\ apc' = "followup")
          => /\ IsPrefix(contents, contents')
             /\ contents'[Len(contents')].parts[1].kind = "functionResponse"]_vars
  /\ [](apc \in {"model", "followup"}
          => /\ IsPrefix(messages, contents)
             /\ Len(contents) > Len(messages)
             /\ modelRequest.contents = contents)

C21_Witness ==
  /\ apc = "followup"
  /\ turns = 2
  /\ Len(messages) >= 5
  /\ Len(modelRequest.contents) = Len(messages) + 3
  /\ modelRequest.contents[Len(messages) + 3].parts[1].kind = "functionResponse"

\* Positions of the history that hold a system turn.
SystemTurns == {k \in DOMAIN messages : messages[k].role = "system"}

\* C24: from the first turn on, whether turns succeed or fail, the history
\* held by the loop has exactly one system turn and it is the first entry.
C24_OneSystemPrompt ==
  (loopEntered /\ turns >= 1) => SystemTurns = {1}

C24_Witness ==
  /\ apc = "prompt"
  /\ turns = 2
  /\ caught # "none"
  /\ Len(messages) > 1
  /\ SystemTurns = {1}

ConsoleLevels == {"log", "info", "warn", "error", "debug"}

\* C23: the first chunk on the server's stdout is the startup notice, and no
\* console output is ever written to stdout, also after start() has restored
\* process.stdout.write; a console call adds its chunk to stderr.
C23_DiagnosticsStayOffStdout ==
  /\ [](stdoutLog # <<>> => stdoutLog[1] = Chunk("startup", StartupNotice))
  /\ [](\A k \in DOMAIN stdoutLog : stdoutLog[k].kind \notin ConsoleLevels)
  /\ [][(spc \in {"connect", "start"} /\ spc' \in {"connect", "steady"})
          => /\ Len(stderrLog') = Len(stderrLog) + 1
             /\ stderrLog'[Len(stderrLog')].kind = "info"
             /\ stdoutLog' = stdoutLog]_vars

C23_Witness ==
  /\ spc = "steady"
  /\ stdoutWrite = "original"
  /\ Len(stdoutLog) = 2
  /\ stdoutLog[2].kind = "response"
  /\ \E k \in DOMAIN stderrLog : stderrLog[k].kind = "log"

\* C25 as stated: generateText never rejects, a failed model call gives a
\* result with isError set whose text is the message of the failure, and a
\* successful one a result without isError.
C25_GenerateTextNeverThrows ==
  /\ gen.pc # "rejected"
  /\ (gen.pc = "returned" /\ gen.failed)
       => (gen.result.isError /\ gen.result.text = gen.err.message)
  /\ (gen.pc = "returned" /\ ~gen.failed) => ~gen.result.isError

\* C25 amended: generateText rejects only when the value thrown cannot be
\* converted to a string; otherwise a failed model call gives a result with
\* isError set whose text is the message when the value is an Error and
\* 'Internal error' when it is not, and a successful call gives a result
\* without isError.
C25_GenerateTextReportsFailures ==
  /\ gen.pc = "rejected" => (gen.failed /\ ~gen.err.printable)
  /\ (gen.pc = "returned" /\ gen.failed)
       => /\ gen.err.printable
          /\ gen.result.isError
          /\ gen.err.isErrorObject => gen.result.text = gen.err.message
          /\ ~gen.err.isErrorObject => gen.result.text = InternalError
  /\ (gen.pc = "returned" /\ ~gen.failed) => ~gen.result.isError

C25_Witness ==
  /\ gen.pc = "returned"
  /\ gen.stream
  /\ gen.frags # <<>>
  /\ gen.failed
  /\ ~gen.err.isErrorObject
  /\ gen.result = [text |-> InternalError, isError |-> TRUE]

\* C22: a call writes at most one request and, once it has read, never reads
\* again; a single response with a result is returned as the call's result
\* whatever id it carries.
C22_ResponseIdNotVerified ==
  /\ [](\A c \in Calls :
          /\ Cardinality(RequestsOf(c)) <= 1
          /\ (/\ calls[c].pc \in {"done", "failed"}
              /\ Len(calls[c].buf) = 1
              /\ calls[c].buf[1].kind = "result")
               => (calls[c].pc = "done" /\ calls[c].ret = calls[c].buf[1].val))
  /\ [][\A c \in Calls :
          /\ (calls[c].pc = "idle" /\ calls'[c].pc # "idle")
               => calls'[c].pc \in {"read", "failed"}
          /\ calls[c].pc \in {"parse", "done", "failed"}
               => (/\ calls'[c].pc \in {"parse", "done", "failed"}
                   /\ calls'[c].buf = calls[c].buf)]_vars

C22_Witness ==
  \E c \in Calls :
    /\ calls[c].pc = "done"
    /\ Cardinality(RequestsOf(c)) = 1
    /\ \A k \in RequestsOf(c) : sent[k].id = 1
    /\ calls[c].buf = <<[kind |-> "result", val |-> 1, id |-> 2]>>
    /\ calls[c].ret = 1

====
